---- MODULE Spec2Model ----
(***************************************************************************)
(* The bucketed asset grid store of web/src/lib/stores/assets.store.ts.    *)
(*                                                                         *)
(* The store holds one AssetGridState (initialized, timelineHeight,        *)
(* buckets, assets; viewportHeight, viewportWidth and options are written  *)
(* and never read by the store).  Every bucket owns an                     *)
(* AbortController (cancelToken).  getAssetsByBucket suspends at the       *)
(* network call; everything else runs to completion.  A suspended call is  *)
(* an element of inFlight, and its completion is a separate step.          *)
(*                                                                         *)
(* AbortControllers are objects; they are modelled by integers, up to      *)
(* renaming.  After every step the controllers are renumbered (Canon): the *)
(* controller held by the bucket at position i is i; a controller that no  *)
(* bucket holds can never be aborted again and is -1 when it is aborted    *)
(* and -2 when it is not; 0 is the `undefined` signal of a call made for a *)
(* bucket that find() did not return.                                      *)
(*                                                                         *)
(* Ghost state (not in the program, read by the properties only): the era  *)
(* of a suspended call and whether it is watched, layout, prunedHeight     *)
(* and last.                                                               *)
(*                                                                         *)
(* The server's AssetService.handleAssetUpload, which queues the jobs of   *)
(* an uploaded asset, is a process of its own (jobs, upload; SpecUpload).  *)
(***************************************************************************)
EXTENDS Integers, Sequences, FiniteSets, Bags

VARIABLES
    initialized,     \* AssetGridState.initialized
    timelineHeight,  \* AssetGridState.timelineHeight
    buckets,         \* AssetGridState.buckets: sequence of AssetBucket
    assets,          \* AssetGridState.assets: the flattened list
    aborted,         \* the bucket-held AbortControllers whose abort() has been called
    inFlight,        \* bag of suspended getAssetsByBucket calls
    layout,          \* ghost: the timeBuckets argument of the last setInitialState
    prunedHeight,    \* ghost: heights of the buckets _removeBucket removed since then
    last,            \* ghost: the operation that completed last
    jobs,            \* the calls of IJobRepository.queue, in order
    upload           \* the handleAssetUpload call of AssetService, if one runs

storeVars == <<initialized, timelineHeight, buckets, assets>>
uploadVars == <<jobs, upload>>
gridVars == <<initialized, timelineHeight, buckets, assets,
              aborted, inFlight, layout, prunedHeight, last>>
vars == <<initialized, timelineHeight, buckets, assets,
          aborted, inFlight, layout, prunedHeight, last, jobs, upload>>

----------------------------------------------------------------------------
(* Bounds and input domains *)

\* at most this many getAssetsByBucket calls are suspended at once
MaxInFlight == 2
\* the heights the grid measures
MeasuredHeights == {1, 2}

K1 == "2024-01"
K2 == "2024-02"
Keys == {K1, K2}

ViewportWidths == {1, 2}

\* the timeBuckets arguments of setInitialState the backend produces
Layouts ==
    { << [timeBucket |-> K1, count |-> 2], [timeBucket |-> K2, count |-> 1] >>,
      << [timeBucket |-> K2, count |-> 2] >> }

\* a timeBuckets argument that repeats a key
DuplicateLayouts ==
    { << [timeBucket |-> K1, count |-> 1], [timeBucket |-> K1, count |-> 1] >> }

Asset(id) == [id |-> id, isFavorite |-> FALSE]

\* what the backend may answer for a bucket (ids are disjoint between buckets)
Responses(bucket) ==
    IF bucket = K1
    THEN { <<>>, << Asset("a1") >>, << Asset("a1"), Asset("a2") >> }
    ELSE { <<>>, << Asset("b1") >> }

Eras == {"cur", "init", "reset"}

----------------------------------------------------------------------------
(* Helpers: lodash and Array functions *)

\* only the first bucket's items, as find() in place of flatMap() would give
flatMapFirstOnly(bs) ==
    IF bs = <<>> THEN <<>> ELSE Head(bs).assets

RECURSIVE flatMap(_)
flatMap(bs) ==
    IF bs = <<>> THEN <<>> ELSE Head(bs).assets \o flatMap(Tail(bs))

RECURSIVE sumBy(_)
sumBy(bs) ==
    IF bs = <<>> THEN 0 ELSE Head(bs).bucketHeight + sumBy(Tail(bs))

\* Array.prototype.findIndex over the buckets; 0 stands for -1
FindIndex(hits) ==
    IF \E i \in 1..Len(hits) : hits[i]
    THEN CHOOSE i \in 1..Len(hits) : hits[i] /\ \A j \in 1..(i - 1) : ~hits[j]
    ELSE 0

FindByDate(bs, bucketDate) ==
    FindIndex([i \in 1..Len(bs) |-> bs[i].bucketDate = bucketDate])

HasAsset(as, assetId) == \E i \in 1..Len(as) : as[i].id = assetId

FindByAsset(bs, assetId) ==
    FindIndex([i \in 1..Len(bs) |-> HasAsset(bs[i].assets, assetId)])

AssetIndex(as, assetId) ==
    CHOOSE i \in 1..Len(as) : as[i].id = assetId /\ \A j \in 1..(i - 1) : as[j].id # assetId

\* Array.prototype.splice(index, 1)
Splice(s, index) == [i \in 1..(Len(s) - 1) |-> IF i < index THEN s[i] ELSE s[i + 1]]

\* calculateViewportHeightByNumberOfAsset: rows of viewportWidth thumbnails
HeightEstimator(count, width) == (count + width - 1) \div width

----------------------------------------------------------------------------
(* AbortControllers and suspended calls *)

Signals(fl) == {f.signal : f \in BagToSet(fl)}

BucketTokens(bs) == {bs[i].cancelToken : i \in 1..Len(bs)}

\* new AbortController(): an object no reference points to yet
NewAbortController(used) ==
    CHOOSE t \in 1..(Cardinality(used) + 1) :
        t \notin used /\ \A u \in 1..(t - 1) : u \in used

\* AbortSignal.aborted
IsAborted(token, ab) == token = -1 \/ token \in ab

RECURSIVE SumCopies(_, _)
SumCopies(B, S) ==
    IF S = {} THEN 0
    ELSE LET f == CHOOSE x \in S : TRUE IN B[f] + SumCopies(B, S \ {f})

\* the bag fl with every element f replaced by R[f]
BagMap(fl, R) ==
    LET dom == {R[f] : f \in DOMAIN fl}
    IN  [g \in dom |-> SumCopies(fl, {f \in DOMAIN fl : R[f] = g})]

\* ghost: every suspended call of an era in `from` now belongs to era `to`
Age(fl, from, to) ==
    LET R == [f \in DOMAIN fl |-> IF f.era \in from THEN [f EXCEPT !.era = to] ELSE f]
    IN  BagMap(fl, R)

\* the number of controller `token` after the step that leaves buckets bs
\* and the aborted controllers ab
Renumber(token, bs, ab) ==
    IF \E i \in 1..Len(bs) : bs[i].cancelToken = token
    THEN CHOOSE i \in 1..Len(bs) : bs[i].cancelToken = token
    ELSE IF token = 0 THEN 0
    ELSE IF IsAborted(token, ab) THEN -1
    ELSE -2

\* the state (bs, fl, ab) with its controllers renumbered
Canon(bs, fl, ab) ==
    LET R == [f \in DOMAIN fl |-> [f EXCEPT !.signal = Renumber(f.signal, bs, ab)]]
    IN  [buckets  |-> [i \in 1..Len(bs) |-> [bs[i] EXCEPT !.cancelToken = i]],
         inFlight |-> BagMap(fl, R),
         aborted  |-> {i \in 1..Len(bs) : bs[i].cancelToken \in ab}]

\* the end of a step that wrote buckets bs, suspended calls fl, aborted ab
Commit(bs, fl, ab) ==
    LET c == Canon(bs, fl, ab)
    IN  /\ buckets' = c.buckets
        /\ inFlight' = c.inFlight
        /\ aborted' = c.aborted

\* a suspended call; watched is a ghost: the call is the one SpecLive follows
Fetch(bucket, signal) ==
    [bucket |-> bucket, signal |-> signal, era |-> "cur", watched |-> FALSE]

\* ghost: how the last step ended; the operation is kept unless it was an
\* item or height mutation or the suspension of a call, the bucket is kept
\* for cancelBucketRequest
Done(op, key, out) ==
    [op    |-> IF op \in {"removeAsset", "updateBucketHeight", "updateAsset"}
                  \/ out = "suspended"
               THEN "" ELSE op,
     key   |-> IF op = "cancelBucketRequest" THEN key ELSE "",
     width |-> 0,
     out   |-> IF out = "suspended" THEN "ok" ELSE out]

----------------------------------------------------------------------------
(* The upload service: AssetService.handleAssetUpload and its job queue *)

\* at most this many jobs are queued in a run
MaxJobs == 6

AssetTypes == {"VIDEO", "IMAGE"}

\* IAssetUploadedJob: the uploaded asset
UploadData == {[asset |-> [id |-> id, type |-> type]] :
                   id \in {"u1", "u2"}, type \in AssetTypes}

\* no handleAssetUpload call has been made
NoUpload == [data |-> [asset |-> [id |-> "", type |-> ""]],
             from |-> 0, pc |-> 0, status |-> "idle"]

Job(name, data) == [name |-> name, data |-> data]

\* the transcode and the metadata extraction of a video in the other order
JobsOfUploadMetadataFirst(data) ==
    << Job("GENERATE_JPEG_THUMBNAIL", data) >>
    \o IF data.asset.type = "VIDEO"
       THEN << Job("EXTRACT_VIDEO_METADATA", data), Job("VIDEO_CONVERSION", data) >>
       ELSE IF data.asset.type = "IMAGE"
       THEN << Job("EXIF_EXTRACTION", data) >>
       ELSE <<>>

(* the jobs handleAssetUpload queues for an uploaded asset, in order *)
JobsOfUpload(data) ==
    << Job("GENERATE_JPEG_THUMBNAIL", data) >>
    \o IF data.asset.type = "VIDEO"
       THEN << Job("VIDEO_CONVERSION", data), Job("EXTRACT_VIDEO_METADATA", data) >>
       ELSE IF data.asset.type = "IMAGE"
       THEN << Job("EXIF_EXTRACTION", data) >>
       ELSE <<>>

(* what the tests of handleAssetUpload expect jobMock.queue.mock.calls to be *)
ExpectedQueueCalls(data) ==
    IF data.asset.type = "VIDEO"
    THEN << Job("GENERATE_JPEG_THUMBNAIL", data),
            Job("VIDEO_CONVERSION", data),
            Job("EXTRACT_VIDEO_METADATA", data) >>
    ELSE << Job("GENERATE_JPEG_THUMBNAIL", data),
            Job("EXIF_EXTRACTION", data) >>

(* sut.handleAssetUpload(data) is called; calls are handled one at a time *)
HandleAssetUpload(data) ==
    /\ upload.status # "running"
    /\ Len(jobs) + Len(JobsOfUpload(data)) <= MaxJobs
    /\ upload' = [data |-> data, from |-> Len(jobs), pc |-> 1, status |-> "running"]
    /\ UNCHANGED <<jobs, gridVars>>

(* await this.jobRepository.queue(...): the next job of the call is queued *)
QueueJob ==
    /\ upload.status = "running"
    /\ upload.pc <= Len(JobsOfUpload(upload.data))
    /\ jobs' = Append(jobs, JobsOfUpload(upload.data)[upload.pc])
    /\ upload' = [upload EXCEPT !.pc = @ + 1]
    /\ UNCHANGED gridVars

(* the promise of handleAssetUpload resolves *)
HandleAssetUploadResolves ==
    /\ upload.status = "running"
    /\ upload.pc > Len(JobsOfUpload(upload.data))
    /\ upload' = [upload EXCEPT !.status = "resolved"]
    /\ UNCHANGED <<jobs, gridVars>>

----------------------------------------------------------------------------
Init ==
    /\ initialized = FALSE
    /\ timelineHeight = 0
    /\ buckets = <<>>
    /\ assets = <<>>
    /\ aborted = {}
    /\ inFlight = EmptyBag
    /\ layout = <<>>
    /\ prunedHeight = 0
    /\ last = Done("new", "", "ok")
    /\ jobs = <<>>
    /\ upload = NoUpload

----------------------------------------------------------------------------
(* new AssetGridState(): the class is declared in $lib/models *)
NewAssetGridState ==
    [initialized |-> FALSE, timelineHeight |-> 0, buckets |-> <<>>, assets |-> <<>>]

(* reset, lines 21-27 *)
Reset ==
    /\ Commit(NewAssetGridState.buckets,
              Age(inFlight, Eras, "reset"),
              aborted \cup BucketTokens(buckets))
    /\ initialized' = NewAssetGridState.initialized
    /\ timelineHeight' = NewAssetGridState.timelineHeight
    /\ assets' = NewAssetGridState.assets
    /\ layout' = <<>>
    /\ prunedHeight' = 0
    /\ last' = Done("reset", "", "ok")
    /\ UNCHANGED uploadVars

\* the item count taken for the height, the estimator left out
RECURSIVE MapTimeBucketsCountAsHeight(_, _, _)
MapTimeBucketsCountAsHeight(timeBuckets, width, used) ==
    IF timeBuckets = <<>> THEN <<>>
    ELSE LET token == NewAbortController(used)
         IN  << [bucketDate |-> Head(timeBuckets).timeBucket,
                 bucketHeight |-> Head(timeBuckets).count,
                 assets |-> <<>>,
                 cancelToken |-> token] >>
             \o MapTimeBucketsCountAsHeight(Tail(timeBuckets), width, used \cup {token})

(* timeBuckets.map(...), lines 46-51 *)
RECURSIVE MapTimeBuckets(_, _, _)
MapTimeBuckets(timeBuckets, width, used) ==
    IF timeBuckets = <<>> THEN <<>>
    ELSE LET token == NewAbortController(used)
         IN  << [bucketDate |-> Head(timeBuckets).timeBucket,
                 bucketHeight |-> HeightEstimator(Head(timeBuckets).count, width),
                 assets |-> <<>>,
                 cancelToken |-> token] >>
             \o MapTimeBuckets(Tail(timeBuckets), width, used \cup {token})

(* setInitialState, lines 35-61 *)
SetInitialState(width, timeBuckets) ==
    LET mapped == MapTimeBuckets(timeBuckets, width,
                                 BucketTokens(buckets) \cup Signals(inFlight))
    IN  /\ initialized' = TRUE
        /\ Commit(mapped, Age(inFlight, {"cur"}, "init"), aborted)
        /\ assets' = <<>>
        /\ timelineHeight' = sumBy(mapped)
        /\ layout' = timeBuckets
        /\ prunedHeight' = 0
        /\ last' = [Done("setInitialState", "", "ok") EXCEPT !.width = width]
        /\ UNCHANGED uploadVars

\* the early return of lines 66-68 left out
GetAssetsByBucketNoEarlyReturn(bucket) ==
    LET i == FindByDate(buckets, bucket) IN
    /\ BagCardinality(inFlight) < MaxInFlight
    /\ inFlight' = inFlight (+) SetToBag(
           {Fetch(bucket, IF i = 0 THEN 0 ELSE buckets[i].cancelToken)})
    /\ last' = Done("getAssetsByBucket", bucket, "suspended")
    /\ UNCHANGED uploadVars
    /\ UNCHANGED <<storeVars, aborted, layout, prunedHeight>>

(* getAssetsByBucket up to the await, lines 63-74 *)
GetAssetsByBucket(bucket) ==
    LET i == FindByDate(buckets, bucket) IN
    IF i # 0 /\ Len(buckets[i].assets) > 0
    THEN /\ last' = Done("getAssetsByBucket", bucket, "dedup")
         /\ UNCHANGED uploadVars
         /\ UNCHANGED <<storeVars, aborted, inFlight, layout, prunedHeight>>
    ELSE /\ BagCardinality(inFlight) < MaxInFlight
         /\ inFlight' = inFlight (+) SetToBag(
                {Fetch(bucket, IF i = 0 THEN 0 ELSE buckets[i].cancelToken)})
         /\ last' = Done("getAssetsByBucket", bucket, "suspended")
         /\ UNCHANGED uploadVars
         /\ UNCHANGED <<storeVars, aborted, layout, prunedHeight>>

\* index -1 taken for the last bucket, as buckets.at(bucketIndex) would
UpdateWithAssetsAtLast(bs, as, bucket, data) ==
    LET found == FindByDate(bs, bucket)
        bucketIndex == IF found = 0 THEN Len(bs) ELSE found
        written == [bs EXCEPT ![bucketIndex].assets = data]
    IN  IF bucketIndex = 0
        THEN [buckets |-> bs, assets |-> as, thrown |-> TRUE]
        ELSE [buckets |-> written, assets |-> flatMap(written), thrown |-> FALSE]

\* the flattened list set to the items that came back
UpdateWithAssetsFlattenedIsAnswer(bs, as, bucket, data) ==
    LET bucketIndex == FindByDate(bs, bucket)
    IN  IF bucketIndex = 0
        THEN [buckets |-> bs, assets |-> as, thrown |-> TRUE]
        ELSE [buckets |-> [bs EXCEPT ![bucketIndex].assets = data],
              assets  |-> data,
              thrown  |-> FALSE]

(* the update callback of lines 77-83 on buckets bs and flattened list as;
   it throws, before it has written anything, when findIndex returns -1 *)
UpdateWithAssets(bs, as, bucket, data) ==
    LET bucketIndex == FindByDate(bs, bucket)
        written == [bs EXCEPT ![bucketIndex].assets = data]
    IN  IF bucketIndex = 0
        THEN [buckets |-> bs, assets |-> as, thrown |-> TRUE]
        ELSE [buckets |-> written, assets |-> flatMap(written), thrown |-> FALSE]

\* an empty answer not written to the bucket
GetByTimeBucketFulfilledSkippingEmpty(f, data) ==
    LET i == FindByDate(buckets, f.bucket)
        written == IF i = 0 \/ data = <<>> THEN buckets
                   ELSE [buckets EXCEPT ![i].assets = data]
    IN  /\ BagIn(f, inFlight)
        /\ inFlight' = inFlight (-) SetToBag({f})
        /\ buckets' = written
        /\ assets' = IF i = 0 THEN assets ELSE flatMap(written)
        /\ last' = Done("getAssetsByBucket", f.bucket, IF i = 0 THEN "caught" ELSE "applied")
        /\ UNCHANGED uploadVars
        /\ UNCHANGED <<initialized, timelineHeight, aborted, layout, prunedHeight>>

\* a bucket made for the key when findIndex does not find it
GetByTimeBucketFulfilledAppending(f, data) ==
    LET i == FindByDate(buckets, f.bucket)
        written == IF i = 0
                   THEN Append(buckets, [bucketDate |-> f.bucket, bucketHeight |-> 0,
                                         assets |-> data,
                                         cancelToken |-> Len(buckets) + 1])
                   ELSE [buckets EXCEPT ![i].assets = data]
    IN  /\ BagIn(f, inFlight)
        /\ inFlight' = inFlight (-) SetToBag({f})
        /\ buckets' = written
        /\ assets' = flatMap(written)
        /\ last' = Done("getAssetsByBucket", f.bucket, "applied")
        /\ UNCHANGED uploadVars
        /\ UNCHANGED <<initialized, timelineHeight, aborted, layout, prunedHeight>>

(* the network call resolves with data: lines 76-83, and 85-91 when the
   update callback throws on buckets[-1] *)
GetByTimeBucketFulfilled(f, data) ==
    LET updated == UpdateWithAssets(buckets, assets, f.bucket, data)
    IN  /\ BagIn(f, inFlight)
        /\ inFlight' = inFlight (-) SetToBag({f})
        /\ buckets' = updated.buckets
        /\ assets' = updated.assets
        /\ last' = Done("getAssetsByBucket", f.bucket,
                        IF updated.thrown THEN "caught" ELSE "applied")
        /\ UNCHANGED uploadVars
        /\ UNCHANGED <<initialized, timelineHeight, aborted, layout, prunedHeight>>

(* the network call rejects with CanceledError: lines 85-88 *)
GetByTimeBucketCanceled(f) ==
    /\ BagIn(f, inFlight)
    /\ IsAborted(f.signal, aborted)
    /\ inFlight' = inFlight (-) SetToBag({f})
    /\ last' = Done("getAssetsByBucket", f.bucket, "discarded")
    /\ UNCHANGED uploadVars
    /\ UNCHANGED <<storeVars, aborted, layout, prunedHeight>>

\* the catch block making the network call again after it logged
GetByTimeBucketFailedRetrying(f) ==
    /\ BagIn(f, inFlight)
    /\ inFlight' = inFlight
    /\ last' = Done("getAssetsByBucket", f.bucket, "logged")
    /\ UNCHANGED uploadVars
    /\ UNCHANGED <<storeVars, aborted, layout, prunedHeight>>

\* the catch block rethrowing what it logged
GetByTimeBucketFailedRethrown(f) ==
    /\ BagIn(f, inFlight)
    /\ inFlight' = inFlight (-) SetToBag({f})
    /\ last' = Done("getAssetsByBucket", f.bucket, "rejected")
    /\ UNCHANGED uploadVars
    /\ UNCHANGED <<storeVars, aborted, layout, prunedHeight>>

(* the network call rejects with another error: lines 85-91 *)
GetByTimeBucketFailed(f) ==
    /\ BagIn(f, inFlight)
    /\ inFlight' = inFlight (-) SetToBag({f})
    /\ last' = Done("getAssetsByBucket", f.bucket, "logged")
    /\ UNCHANGED uploadVars
    /\ UNCHANGED <<storeVars, aborted, layout, prunedHeight>>

\* splice(-1, 1), as when findIndex does not find the key: the last bucket goes
RemoveBucketLast(bs, bucketDate) == Splice(bs, Len(bs))

(* _removeBucket, lines 108-115 *)
RemoveBucket(bs, bucketDate) == Splice(bs, FindByDate(bs, bucketDate))

\* removeAsset taking the height of the bucket it removes off timelineHeight
RemoveAssetDebitingHeight(assetId) ==
    LET bucketIndex == FindByAsset(buckets, assetId) IN
    IF bucketIndex = 0
    THEN /\ last' = Done("removeAsset", "", "TypeError")
         /\ UNCHANGED uploadVars
         /\ UNCHANGED <<storeVars, aborted, inFlight, layout, prunedHeight>>
    ELSE LET spliced == [buckets EXCEPT ![bucketIndex].assets =
                             Splice(@, AssetIndex(@, assetId))]
             bucketDate == spliced[bucketIndex].bucketDate
             emptied == Len(spliced[bucketIndex].assets) = 0
             left == IF emptied THEN RemoveBucket(spliced, bucketDate) ELSE spliced
             height == spliced[FindByDate(spliced, bucketDate)].bucketHeight
         IN  /\ Commit(left, inFlight, aborted)
             /\ assets' = flatMap(left)
             /\ timelineHeight' = IF emptied THEN timelineHeight - height
                                              ELSE timelineHeight
             /\ prunedHeight' = IF emptied THEN prunedHeight + height ELSE prunedHeight
             /\ last' = Done("removeAsset", bucketDate, IF emptied THEN "pruned" ELSE "ok")
             /\ UNCHANGED uploadVars
             /\ UNCHANGED <<initialized, layout>>

(* removeAsset, lines 94-106 *)
RemoveAsset(assetId) ==
    LET bucketIndex == FindByAsset(buckets, assetId) IN
    IF bucketIndex = 0
    THEN /\ last' = Done("removeAsset", "", "TypeError")
         /\ UNCHANGED uploadVars
         /\ UNCHANGED <<storeVars, aborted, inFlight, layout, prunedHeight>>
    ELSE LET spliced == [buckets EXCEPT ![bucketIndex].assets =
                             Splice(@, AssetIndex(@, assetId))]
             bucketDate == spliced[bucketIndex].bucketDate
             emptied == Len(spliced[bucketIndex].assets) = 0
             left == IF emptied THEN RemoveBucket(spliced, bucketDate) ELSE spliced
         IN  /\ Commit(left, inFlight, aborted)
             /\ assets' = flatMap(left)
             /\ prunedHeight' =
                    IF emptied
                    THEN prunedHeight
                         + spliced[FindByDate(spliced, bucketDate)].bucketHeight
                    ELSE prunedHeight
             /\ last' = Done("removeAsset", bucketDate, IF emptied THEN "pruned" ELSE "ok")
             /\ UNCHANGED uploadVars
             /\ UNCHANGED <<initialized, timelineHeight, layout>>

\* the else branch of lines 123-127 left out
AdjustTimelineHeightGrowOnly(timeline, estimateBucketHeight, actualBucketHeight) ==
    IF actualBucketHeight >= estimateBucketHeight
    THEN timeline + (actualBucketHeight - estimateBucketHeight)
    ELSE timeline

\* a slip of sign in the else branch of lines 123-127
AdjustTimelineHeightSignSlip(timeline, estimateBucketHeight, actualBucketHeight) ==
    IF actualBucketHeight >= estimateBucketHeight
    THEN timeline + (actualBucketHeight - estimateBucketHeight)
    ELSE timeline - (actualBucketHeight - estimateBucketHeight)

(* the branch of updateBucketHeight on the timeline height, lines 123-127 *)
AdjustTimelineHeight(timeline, estimateBucketHeight, actualBucketHeight) ==
    IF actualBucketHeight >= estimateBucketHeight
    THEN timeline + (actualBucketHeight - estimateBucketHeight)
    ELSE timeline - (estimateBucketHeight - actualBucketHeight)

(* updateBucketHeight, lines 117-132 *)
UpdateBucketHeight(bucket, actualBucketHeight) ==
    LET bucketIndex == FindByDate(buckets, bucket) IN
    IF bucketIndex = 0
    THEN /\ last' = Done("updateBucketHeight", bucket, "TypeError")
         /\ UNCHANGED uploadVars
         /\ UNCHANGED <<storeVars, aborted, inFlight, layout, prunedHeight>>
    ELSE LET estimateBucketHeight == buckets[bucketIndex].bucketHeight IN
         /\ timelineHeight' = AdjustTimelineHeight(timelineHeight,
                                   estimateBucketHeight, actualBucketHeight)
         /\ buckets' = [buckets EXCEPT ![bucketIndex].bucketHeight = actualBucketHeight]
         /\ last' = Done("updateBucketHeight", bucket, "ok")
         /\ UNCHANGED uploadVars
         /\ UNCHANGED <<initialized, assets, aborted, inFlight, layout, prunedHeight>>

(* cancelBucketRequest, lines 134-142 *)
CancelBucketRequest(token, bucketDate) ==
    LET bucketIndex == FindByDate(buckets, bucketDate) IN
    IF bucketIndex = 0
    THEN /\ Commit(buckets, inFlight, aborted \cup {token})
         /\ last' = Done("cancelBucketRequest", bucketDate, "TypeError")
         /\ UNCHANGED uploadVars
         /\ UNCHANGED <<initialized, timelineHeight, assets, layout, prunedHeight>>
    ELSE /\ Commit([buckets EXCEPT ![bucketIndex].cancelToken =
                       NewAbortController(BucketTokens(buckets) \cup Signals(inFlight))],
                   inFlight, aborted \cup {token})
         /\ last' = Done("cancelBucketRequest", bucketDate, "ok")
         /\ UNCHANGED uploadVars
         /\ UNCHANGED <<initialized, timelineHeight, assets, layout, prunedHeight>>

\* the flag written to every item of the owning bucket
UpdateAssetWholeBucket(assetId, isFavorite) ==
    LET bucketIndex == FindByAsset(buckets, assetId) IN
    IF bucketIndex = 0
    THEN /\ last' = Done("updateAsset", "", "TypeError")
         /\ UNCHANGED uploadVars
         /\ UNCHANGED <<storeVars, aborted, inFlight, layout, prunedHeight>>
    ELSE LET flagged == [buckets EXCEPT ![bucketIndex].assets =
                            [k \in 1..Len(@) |-> [@[k] EXCEPT !.isFavorite = isFavorite]]]
         IN  /\ buckets' = flagged
             /\ assets' = flatMap(flagged)
             /\ last' = Done("updateAsset", "", "ok")
             /\ UNCHANGED uploadVars
             /\ UNCHANGED <<initialized, timelineHeight, aborted, inFlight,
                            layout, prunedHeight>>

(* updateAsset, lines 144-153 *)
UpdateAsset(assetId, isFavorite) ==
    LET bucketIndex == FindByAsset(buckets, assetId) IN
    IF bucketIndex = 0
    THEN /\ last' = Done("updateAsset", "", "TypeError")
         /\ UNCHANGED uploadVars
         /\ UNCHANGED <<storeVars, aborted, inFlight, layout, prunedHeight>>
    ELSE LET assetIndex == AssetIndex(buckets[bucketIndex].assets, assetId)
             flagged == [buckets EXCEPT
                            ![bucketIndex].assets[assetIndex].isFavorite = isFavorite]
         IN  /\ buckets' = flagged
             /\ assets' = flatMap(flagged)
             /\ last' = Done("updateAsset", "", "ok")
             /\ UNCHANGED uploadVars
             /\ UNCHANGED <<initialized, timelineHeight, aborted, inFlight,
                            layout, prunedHeight>>

----------------------------------------------------------------------------
(* The callers: the grid asks for the buckets it was given in an
   initialized state, measures and cancels the buckets it shows (a bucket is
   cancelled with the token read from it), and removes and flags the items
   it shows. *)
LayoutKeys == {layout[i].timeBucket : i \in 1..Len(layout)}

ShownKeys == {buckets[i].bucketDate : i \in 1..Len(buckets)}

ShownIds == {assets[i].id : i \in 1..Len(assets)}

Operations ==
    \/ Reset
    \/ \E bucket \in LayoutKeys : initialized /\ GetAssetsByBucket(bucket)
    \/ \E f \in BagToSet(inFlight) : \E data \in Responses(f.bucket) :
           GetByTimeBucketFulfilled(f, data)
    \/ \E f \in BagToSet(inFlight) : GetByTimeBucketCanceled(f)
    \/ \E f \in BagToSet(inFlight) : GetByTimeBucketFailed(f)
    \/ \E assetId \in ShownIds : RemoveAsset(assetId)
    \/ \E bucket \in ShownKeys, height \in MeasuredHeights :
           UpdateBucketHeight(bucket, height)
    \/ \E i \in 1..Len(buckets) :
           CancelBucketRequest(buckets[i].cancelToken, buckets[i].bucketDate)
    \/ \E assetId \in ShownIds, isFavorite \in BOOLEAN :
           UpdateAsset(assetId, isFavorite)

Next ==
    \/ Operations
    \/ \E width \in ViewportWidths, timeBuckets \in Layouts :
           SetInitialState(width, timeBuckets)

Spec == Init /\ [][Next]_vars

(* The same store under a caller that may also pass a layout that repeats
   a bucket key *)
NextDup ==
    \/ Operations
    \/ \E width \in ViewportWidths, timeBuckets \in Layouts \cup DuplicateLayouts :
           SetInitialState(width, timeBuckets)

SpecDup == Init /\ [][NextDup]_vars

(* The store with one suspended call followed to its end.  Watch is a ghost
   step that picks the call; the network settles every call it was given
   (it answers, fails, or rejects the call as cancelled once the signal is
   aborted), which is the weak fairness of the watched call's completion. *)
Watched == \E f \in BagToSet(inFlight) : f.watched

Watch(f) ==
    /\ BagIn(f, inFlight)
    /\ ~Watched
    /\ inFlight' = (inFlight (-) SetToBag({f})) (+) SetToBag({[f EXCEPT !.watched = TRUE]})
    /\ UNCHANGED <<storeVars, aborted, layout, prunedHeight, last, uploadVars>>

Settles(f) ==
    \/ \E data \in Responses(f.bucket) : GetByTimeBucketFulfilled(f, data)
    \/ GetByTimeBucketCanceled(f)
    \/ GetByTimeBucketFailed(f)

WatchedSettles == \E f \in BagToSet(inFlight) : f.watched /\ Settles(f)

NextLive ==
    \/ Next
    \/ \E f \in BagToSet(inFlight) : Watch(f)

SpecLive == Init /\ [][NextLive]_vars /\ WF_vars(WatchedSettles)

(* The upload service alone: uploads are handled one after the other *)
NextUpload ==
    \/ \E data \in UploadData : HandleAssetUpload(data)
    \/ QueueJob
    \/ HandleAssetUploadResolves

SpecUpload == Init /\ [][NextUpload]_vars

----------------------------------------------------------------------------
(* Vocabulary of the properties *)

\* the concatenation of the item lists of the first n buckets
RECURSIVE ItemsOfFirst(_, _)
ItemsOfFirst(bs, n) ==
    IF n = 0 THEN <<>> ELSE ItemsOfFirst(bs, n - 1) \o bs[n].assets

\* the sum of the heights of the first n buckets
RECURSIVE HeightOfFirst(_, _)
HeightOfFirst(bs, n) ==
    IF n = 0 THEN 0 ELSE HeightOfFirst(bs, n - 1) + bs[n].bucketHeight

\* bucket `bucket` is Loaded: it is in the state with a non-empty item list
Loaded(bs, bucket) ==
    \E i \in 1..Len(bs) :
        /\ bs[i].bucketDate = bucket
        /\ \A j \in 1..(i - 1) : bs[j].bucketDate # bucket
        /\ bs[i].assets # <<>>

----------------------------------------------------------------------------
(* C1: invariant I3.  After every store operation and every completion of a
   fetch, the flattened item list is the concatenation of the item lists of
   the buckets in the state, in bucket order. *)
C1_FlattenedIsConcatenation ==
    assets = ItemsOfFirst(buckets, Len(buckets))

\* both buckets are loaded, and an item of the first one has been removed
C1_Witness ==
    /\ Len(buckets) = 2
    /\ Len(buckets[1].assets) = 1
    /\ buckets[1].assets[1].id = "a2"
    /\ Len(buckets[2].assets) = 1

(* C2: invariant I2.  As long as no removeAsset has emptied (and so removed)
   a bucket since the state was set up, timelineHeight is the sum of the
   heights of the buckets in the state. *)
C2_TimelineHeightIsSum ==
    prunedHeight = 0 => timelineHeight = HeightOfFirst(buckets, Len(buckets))

\* heights measured below and above the estimates, items loaded and removed
C2_Witness ==
    /\ prunedHeight = 0
    /\ Len(buckets) = 2
    /\ buckets[1].bucketHeight = 1
    /\ buckets[2].bucketHeight = 2
    /\ Len(buckets[1].assets) = 1
    /\ inFlight # EmptyBag

\* the suspended calls for `bucket` whose signal is not aborted
RECURSIVE CountLive(_, _, _, _)
CountLive(fl, S, ab, bucket) ==
    IF S = {} THEN 0
    ELSE LET f == CHOOSE x \in S : TRUE
         IN  (IF f.bucket = bucket /\ ~IsAborted(f.signal, ab) THEN fl[f] ELSE 0)
             + CountLive(fl, S \ {f}, ab, bucket)

LiveFetches(fl, ab, bucket) == CountLive(fl, DOMAIN fl, ab, bucket)

\* the estimated heights of the first n entries of a layout
RECURSIVE EstimateOfFirst(_, _, _)
EstimateOfFirst(timeBuckets, width, n) ==
    IF n = 0 THEN 0
    ELSE EstimateOfFirst(timeBuckets, width, n - 1)
         + HeightEstimator(timeBuckets[n].count, width)

(* C3: a suspended call whose bucket was cancelled after the call was made
   (its signal is aborted, and it was made in the current state) and that
   then resolves with data changes neither the buckets nor the flattened
   list. *)
C3_CancelledResultNotApplied ==
    [][ \A f \in BagToSet(inFlight) : \A data \in Responses(f.bucket) :
            ( /\ f.era = "cur"
              /\ IsAborted(f.signal, aborted)
              /\ GetByTimeBucketFulfilled(f, data) )
            => (buckets' = buckets /\ assets' = assets) ]_vars

(* C4: reset leaves an uninitialized state and every call suspended at that
   moment with an aborted signal; a call made before a reset never changes
   the grid state afterwards. *)
C4_ResetCutsOffEarlierCalls ==
    [][ /\ Reset => /\ ~initialized' /\ buckets' = <<>> /\ assets' = <<>>
                    /\ \A f \in BagToSet(inFlight') : IsAborted(f.signal, aborted')
        /\ \A f \in BagToSet(inFlight) : \A data \in Responses(f.bucket) :
               (f.era = "reset" /\ GetByTimeBucketFulfilled(f, data))
               => UNCHANGED storeVars ]_vars

(* C5: cancelBucketRequest leaves the bucket with a controller that is not
   aborted and that no suspended call is bound to; a getAssetsByBucket for
   the same bucket made right after it is bound to that controller and is
   then the only suspended call for the bucket whose signal is not aborted. *)
C5_OneLiveFetchAfterCancel ==
    [][ /\ \A i \in 1..Len(buckets) :
               CancelBucketRequest(buckets[i].cancelToken, buckets[i].bucketDate)
               => LET j == FindByDate(buckets', buckets[i].bucketDate)
                  IN  /\ j # 0
                      /\ ~IsAborted(buckets'[j].cancelToken, aborted')
                      /\ buckets'[j].cancelToken \notin Signals(inFlight')
        /\ \A bucket \in Keys :
               ( /\ last.op = "cancelBucketRequest" /\ last.key = bucket
                 /\ last.out = "ok"
                 /\ ~Loaded(buckets, bucket)
                 /\ GetAssetsByBucket(bucket) )
               => /\ BagIn(Fetch(bucket,
                                 buckets[FindByDate(buckets, bucket)].cancelToken),
                           inFlight')
                  /\ LiveFetches(inFlight', aborted', bucket) = 1 ]_vars

(* C6: getAssetsByBucket for a bucket that is Loaded changes no part of the
   state and suspends no call. *)
C6_LoadedBucketIsNotFetchedAgain ==
    [][ \A bucket \in Keys :
            (Loaded(buckets, bucket) /\ GetAssetsByBucket(bucket))
            => /\ UNCHANGED <<storeVars, aborted, inFlight>>
               /\ last'.out = "dedup" ]_vars

\* a call for a Loaded bucket has returned early while another is suspended
C6_Witness ==
    /\ last.op = "getAssetsByBucket" /\ last.out = "dedup"
    /\ inFlight # EmptyBag

(* C7: invariant I1.  No two buckets of the state have the same key
   (setInitialState having refused a layout that repeats a key). *)
C7_BucketKeysUnique ==
    \A i, j \in 1..Len(buckets) :
        i # j => buckets[i].bucketDate # buckets[j].bucketDate

(* C8: setInitialState with a layout without repeated keys leaves, in layout
   order, one Empty bucket per entry with the estimated height, the sum of
   those heights as timelineHeight, an empty flattened list, initialized
   set, and no call suspended by it (every suspended call was made before). *)
C8_InitialStateFromLayout ==
    last.op = "setInitialState"
    => /\ initialized
       /\ Len(buckets) = Len(layout)
       /\ \A i \in 1..Len(layout) :
              /\ buckets[i].bucketDate = layout[i].timeBucket
              /\ buckets[i].bucketHeight = HeightEstimator(layout[i].count, last.width)
              /\ buckets[i].assets = <<>>
       /\ timelineHeight = EstimateOfFirst(layout, last.width, Len(layout))
       /\ assets = <<>>
       /\ \A f \in BagToSet(inFlight) : f.era # "cur"

\* setInitialState has replaced a state while a call made under it is suspended
C8_Witness ==
    /\ last.op = "setInitialState" /\ last.width = 1
    /\ Len(buckets) = 2
    /\ timelineHeight = 3
    /\ \E f \in BagToSet(inFlight) : f.era = "init"

(* C9, as claimed: a call that ends in a cancelled or another failure leaves
   the grid state unchanged, throws nothing, and leaves its bucket Empty. *)
C9_FailureLeavesBucketEmpty ==
    [][ \A f \in BagToSet(inFlight) :
            (GetByTimeBucketCanceled(f) \/ GetByTimeBucketFailed(f))
            => /\ UNCHANGED storeVars
               /\ last'.out \in {"discarded", "logged"}
               /\ ~Loaded(buckets', f.bucket) ]_vars

(* C9, amended: a call that ends in a cancelled or another failure leaves
   the grid state unchanged and throws nothing, so its bucket is Loaded
   afterwards only if it was Loaded before; and getAssetsByBucket for a
   bucket that is not Loaded suspends a new call. *)
C9_FailureLeavesStateUnchanged ==
    [][ /\ \A f \in BagToSet(inFlight) :
               (GetByTimeBucketCanceled(f) \/ GetByTimeBucketFailed(f))
               => /\ UNCHANGED storeVars
                  /\ last'.out \in {"discarded", "logged"}
                  /\ Loaded(buckets', f.bucket) => Loaded(buckets, f.bucket)
        /\ \A bucket \in Keys :
               (~Loaded(buckets, bucket) /\ GetAssetsByBucket(bucket))
               => BagCardinality(inFlight') = BagCardinality(inFlight) + 1 ]_vars

\* a cancelled call has been discarded while items are loaded
C9_Witness ==
    /\ last.op = "getAssetsByBucket" /\ last.out = "discarded"
    /\ assets # <<>>

(* C10: updateBucketHeight for a bucket of the state sets that bucket's
   height to the measured one, moves timelineHeight by the difference, and
   changes no other height, no item list and not the flattened list; with
   the height the bucket already has it changes nothing. *)
C10_MeasuredHeightMovesTimeline ==
    [][ \A bucket \in Keys, height \in MeasuredHeights :
            (FindByDate(buckets, bucket) # 0 /\ UpdateBucketHeight(bucket, height))
            => LET i == FindByDate(buckets, bucket)
               IN  /\ Len(buckets') = Len(buckets)
                   /\ buckets'[i] = [buckets[i] EXCEPT !.bucketHeight = height]
                   /\ \A j \in 1..Len(buckets) : j # i => buckets'[j] = buckets[j]
                   /\ timelineHeight' - timelineHeight
                          = height - buckets[i].bucketHeight
                   /\ assets' = assets
                   /\ buckets[i].bucketHeight = height => UNCHANGED storeVars ]_vars

\* the second bucket, estimated at 1, has been measured at 2 and the first,
\* estimated at 2, at 1
C10_Witness ==
    /\ Len(buckets) = 2
    /\ layout[2].count = 1 /\ buckets[2].bucketHeight = 2
    /\ buckets[1].bucketHeight = 1
    /\ timelineHeight = 3
    /\ prunedHeight = 0

----------------------------------------------------------------------------
\* a bucket without its AbortController: key, height and items
Content(b) == [bucketDate |-> b.bucketDate, bucketHeight |-> b.bucketHeight,
               assets |-> b.assets]

\* the items of s other than the one with identifier id, in order
Without(s, id) == SelectSeq(s, LAMBDA a : a.id # id)

(* C11: invariant I5.  removeAsset for an item of some bucket takes exactly
   that item out of its owning bucket; when that leaves the owning bucket
   without items, that bucket and no other is gone from the bucket list when
   the operation ends, and otherwise no bucket is; no bucket that had items
   before the operation is left in the state without items. *)
C11_RemovalPrunesEmptiedBucket ==
    [][ \A assetId \in ShownIds :
            RemoveAsset(assetId)
            => LET i == FindByAsset(buckets, assetId)
                   rest == Without(buckets[i].assets, assetId)
               IN  /\ i # 0
                   /\ Len(rest) = Len(buckets[i].assets) - 1
                   /\ IF rest = <<>>
                      THEN /\ Len(buckets') = Len(buckets) - 1
                           /\ \A j \in 1..Len(buckets') :
                                  Content(buckets'[j])
                                      = Content(buckets[IF j < i THEN j ELSE j + 1])
                           /\ last'.out = "pruned"
                      ELSE /\ Len(buckets') = Len(buckets)
                           /\ \A j \in 1..Len(buckets) :
                                  Content(buckets'[j])
                                      = IF j = i
                                        THEN [Content(buckets[j]) EXCEPT !.assets = rest]
                                        ELSE Content(buckets[j])
                           /\ last'.out = "ok"
                   /\ \A j \in 1..Len(buckets') : \A k \in 1..Len(buckets) :
                          ( /\ buckets'[j].bucketDate = buckets[k].bucketDate
                            /\ buckets[k].assets # <<>> )
                          => buckets'[j].assets # <<>> ]_vars

\* the first of two buckets has been emptied and removed, the second is left
C11_Witness ==
    /\ last.out = "pruned"
    /\ Len(layout) = 2
    /\ Len(buckets) = 1
    /\ buckets[1].bucketDate = K2

(* C12: the documented height gap.  removeAsset does not take the height of
   a bucket it removes off timelineHeight: in every state, timelineHeight is
   the sum of the heights of the buckets in the state plus the heights, as
   they were when the bucket was removed, of the buckets removed since the
   state was set up. *)
C12_TimelineHeightKeepsPrunedHeights ==
    timelineHeight = HeightOfFirst(buckets, Len(buckets)) + prunedHeight

\* the first bucket was removed at height 2, the second measured at 2 since
C12_Witness ==
    /\ prunedHeight = 2
    /\ Len(buckets) = 1
    /\ buckets[1].bucketDate = K2
    /\ buckets[1].bucketHeight = 2
    /\ timelineHeight = 4
    /\ last.out = "ok" /\ last.op = ""

\* the keys of the buckets, in order
BucketDates(bs) == [i \in 1..Len(bs) |-> bs[i].bucketDate]

\* s can be had from t by leaving elements out
RECURSIVE IsSubsequence(_, _)
IsSubsequence(s, t) ==
    IF s = <<>> THEN TRUE
    ELSE IF t = <<>> THEN FALSE
    ELSE IF Head(s) = Head(t) THEN IsSubsequence(Tail(s), Tail(t))
    ELSE IsSubsequence(s, Tail(t))

(* C13: from one setInitialState to the next setInitialState or reset, the
   keys of the buckets in the state are, in order, keys of the layout that
   was given, in layout order: operations and completions of calls only
   ever take buckets out; after reset there is no bucket. *)
C13_BucketsAreSubsequenceOfLayout ==
    IsSubsequence(BucketDates(buckets),
                  [i \in 1..Len(layout) |-> layout[i].timeBucket])

\* the first of two buckets is gone, the second has been loaded since
C13_Witness ==
    /\ Len(layout) = 2
    /\ BucketDates(buckets) = <<K2>>
    /\ prunedHeight > 0
    /\ last.out = "applied"
    /\ buckets[1].assets # <<>>

\* the jobs the running or resolved handleAssetUpload call has queued
QueuedByUpload == SubSeq(jobs, upload.from + 1, Len(jobs))

(* C14: the order of the jobs of an upload.  When handleAssetUpload has
   resolved, it has queued, for a video, exactly the three jobs thumbnail
   generation, video conversion, video metadata extraction, in that order,
   and for an image exactly the two jobs thumbnail generation, EXIF
   extraction, in that order (as the tests expect the calls of queue to
   be); while it runs, what it has queued so far begins with the thumbnail
   job; every job carries the data of the upload. *)
C14_UploadJobsInOrder ==
    /\ upload.status = "resolved"
       => /\ QueuedByUpload = ExpectedQueueCalls(upload.data)
          /\ upload.data.asset.type = "VIDEO"
             => [i \in 1..Len(QueuedByUpload) |-> QueuedByUpload[i].name]
                    = << "GENERATE_JPEG_THUMBNAIL", "VIDEO_CONVERSION",
                         "EXTRACT_VIDEO_METADATA" >>
          /\ upload.data.asset.type = "IMAGE"
             => [i \in 1..Len(QueuedByUpload) |-> QueuedByUpload[i].name]
                    = << "GENERATE_JPEG_THUMBNAIL", "EXIF_EXTRACTION" >>
    /\ upload.status # "idle"
       => /\ QueuedByUpload # <<>> => QueuedByUpload[1].name = "GENERATE_JPEG_THUMBNAIL"
          /\ \A i \in 1..Len(QueuedByUpload) : QueuedByUpload[i].data = upload.data

\* a video has been handled after an image
C14_Witness ==
    /\ upload.status = "resolved"
    /\ upload.data.asset.type = "VIDEO"
    /\ upload.from = 2
    /\ Len(jobs) = 5
    /\ jobs[2].name = "EXIF_EXTRACTION"

\* the items of s, the one with identifier id given the flag
WithFlag(s, id, isFavorite) ==
    [k \in 1..Len(s) |-> IF s[k].id = id
                         THEN [id |-> s[k].id, isFavorite |-> isFavorite]
                         ELSE s[k]]

(* C15: updateAsset for an item of some bucket changes only that item's
   favorite flag: the bucket list, every bucket's key, height, controller
   and items (which ones, and in which order), timelineHeight, initialized,
   the aborted controllers and the suspended calls are as before, and the
   flattened list shows the item with the new flag. *)
C15_UpdateAssetChangesOnlyTheFlag ==
    [][ \A assetId \in ShownIds, isFavorite \in BOOLEAN :
            UpdateAsset(assetId, isFavorite)
            => /\ Len(buckets') = Len(buckets)
               /\ \A j \in 1..Len(buckets) :
                      buckets'[j] = [buckets[j] EXCEPT
                                        !.assets = WithFlag(@, assetId, isFavorite)]
               /\ assets' = WithFlag(assets, assetId, isFavorite)
               /\ \E k \in 1..Len(assets') :
                      assets'[k].id = assetId /\ assets'[k].isFavorite = isFavorite
               /\ UNCHANGED <<initialized, timelineHeight, aborted, inFlight>> ]_vars

\* of the two items of a bucket, the second has been made a favorite
C15_Witness ==
    /\ Len(buckets) = 2
    /\ Len(buckets[1].assets) = 2
    /\ ~buckets[1].assets[1].isFavorite
    /\ buckets[1].assets[2].isFavorite
    /\ Len(assets) = 3

(* C16: the load states.  A call that resolves with an empty list for a
   bucket of the state leaves that bucket in the bucket list, with its
   height and without items (Empty, not Loaded) and changes no other bucket;
   getAssetsByBucket returns early only for a bucket with items, and for a
   bucket without items it suspends a new call. *)
C16_EmptyAnswerLeavesBucketEmpty ==
    [][ /\ \A f \in BagToSet(inFlight) :
               (FindByDate(buckets, f.bucket) # 0 /\ GetByTimeBucketFulfilled(f, <<>>))
               => LET i == FindByDate(buckets, f.bucket)
                  IN  /\ Len(buckets') = Len(buckets)
                      /\ buckets'[i] = [buckets[i] EXCEPT !.assets = <<>>]
                      /\ \A j \in 1..Len(buckets) : j # i => buckets'[j] = buckets[j]
                      /\ ~Loaded(buckets', f.bucket)
                      /\ timelineHeight' = timelineHeight
        /\ \A bucket \in Keys :
               GetAssetsByBucket(bucket)
               => IF \E i \in 1..Len(buckets) :
                         buckets[i].bucketDate = bucket /\ buckets[i].assets # <<>>
                  THEN last'.out = "dedup" /\ inFlight' = inFlight
                  ELSE /\ last'.out # "dedup"
                       /\ BagCardinality(inFlight') = BagCardinality(inFlight) + 1
                       /\ \E f \in BagToSet(inFlight') :
                              f.bucket = bucket /\ f.era = "cur" ]_vars

\* an empty answer has been written to one of two buckets, which are both
\* without items, while another call is suspended
C16_Witness ==
    /\ last.op = "getAssetsByBucket" /\ last.out = "applied"
    /\ Len(buckets) = 2
    /\ \A i \in 1..Len(buckets) : buckets[i].assets = <<>>
    /\ assets = <<>>
    /\ inFlight # EmptyBag

\* the state the completions (f1, d1) and then (f2, d2) leave
AppliedInOrder(f1, d1, f2, d2) ==
    LET first == UpdateWithAssets(buckets, assets, f1.bucket, d1)
        both  == UpdateWithAssets(first.buckets, first.assets, f2.bucket, d2)
    IN  <<both.buckets, both.assets>>

(* C17: calls suspended at once for different buckets are independent.  A
   call that resolves with data for a bucket of the state replaces the items
   of that bucket, leaves every other bucket and every height as it was, and
   leaves the flattened list the concatenation of the item lists; and for
   every call for another bucket suspended at that moment, whatever it
   resolves with, the state after both completions is the same in either
   order. *)
C17_DistinctBucketsLoadIndependently ==
    [][ \A f \in BagToSet(inFlight) : \A data \in Responses(f.bucket) :
            (FindByDate(buckets, f.bucket) # 0 /\ GetByTimeBucketFulfilled(f, data))
            => LET i == FindByDate(buckets, f.bucket)
               IN  /\ Len(buckets') = Len(buckets)
                   /\ buckets'[i] = [buckets[i] EXCEPT !.assets = data]
                   /\ \A j \in 1..Len(buckets) : j # i => buckets'[j] = buckets[j]
                   /\ assets' = ItemsOfFirst(buckets', Len(buckets'))
                   /\ UNCHANGED <<initialized, timelineHeight, aborted>>
                   /\ \A f2 \in BagToSet(inFlight) :
                          f2.bucket # f.bucket
                          => \A d2 \in Responses(f2.bucket) :
                                 AppliedInOrder(f, data, f2, d2)
                                     = AppliedInOrder(f2, d2, f, data) ]_vars

\* the first bucket has been loaded while a call for the second, which is
\* without items, is suspended
C17_Witness ==
    /\ last.op = "getAssetsByBucket" /\ last.out = "applied"
    /\ Len(buckets) = 2
    /\ buckets[1].assets # <<>>
    /\ buckets[2].assets = <<>>
    /\ \E f \in BagToSet(inFlight) :
           f.bucket = buckets[2].bucketDate /\ f.era = "cur" /\ f.signal = 2

(* C18: a call that resolves with data for a key that no bucket of the state
   has (the bucket was removed by removeAsset, or the state was reset, while
   the call was suspended) leaves the grid state as it was: no bucket is
   added or written, the flattened list is not changed, and the call ends
   without throwing (the TypeError of the update callback is caught). *)
C18_AnswerForMissingBucketChangesNothing ==
    [][ \A f \in BagToSet(inFlight) : \A data \in Responses(f.bucket) :
            ( /\ \A i \in 1..Len(buckets) : buckets[i].bucketDate # f.bucket
              /\ GetByTimeBucketFulfilled(f, data) )
            => /\ UNCHANGED <<storeVars, aborted>>
               /\ last'.out = "caught" ]_vars

\* the first of two buckets was removed while a call for it was suspended,
\* and that call has resolved with data
C18_Witness ==
    /\ last.op = "getAssetsByBucket" /\ last.out = "caught"
    /\ initialized
    /\ Len(layout) = 2
    /\ BucketDates(buckets) = <<K2>>

(* C19: a call made in an initialized state does not write into the state a
   later setInitialState (with no reset in between) has set up: when such a
   call resolves with data, the buckets of the new state and the flattened
   list stay as they are, also when the new layout has the key again. *)
C19_CallOfReplacedStateDoesNotWrite ==
    [][ \A f \in BagToSet(inFlight) : \A data \in Responses(f.bucket) :
            (f.era = "init" /\ GetByTimeBucketFulfilled(f, data))
            => (buckets' = buckets /\ assets' = assets) ]_vars

(* C20: every getAssetsByBucket call whose network call is settled ends,
   and ends without rejecting.  A suspended call leaves the suspended calls
   only by its own completion, which applies the answer, discards a
   cancellation silently, or logs a failure (no other step, and no timeout,
   ends it); and, the network settling the call (also the call of a bucket
   cancelled by cancelBucketRequest), the call does end. *)
C20_SettledCallEnds ==
    /\ [][ (Watched /\ ~Watched')
           => /\ BagCardinality(inFlight') = BagCardinality(inFlight) - 1
              /\ last'.op = "getAssetsByBucket"
              /\ last'.out \in {"applied", "discarded", "logged", "caught"} ]_vars
    /\ Watched ~> ~Watched

\* the watched call of a cancelled bucket has been discarded
C20_Witness ==
    /\ ~Watched
    /\ last.op = "getAssetsByBucket" /\ last.out = "discarded"
    /\ inFlight # EmptyBag
    /\ Len(buckets) = 2

====
